---- MODULE Spec2Model ----
(***************************************************************************)
(* Caching proxy server: the in-process LRU+TTL store                      *)
(* (cache_backends.py, MemoryCacheBackend), the remote store               *)
(* (RedisCacheBackend) and the cache-aside request protocol                *)
(* (main.py, process_proxy_request) with its administrative routes.        *)
(***************************************************************************)
EXTENDS Integers, Sequences, FiniteSets, TLC

\* ------------------------------------------------------------------ bounds
MaxSize == 2          \* largest max_size a store is built with
MaxTime == 2          \* the clock runs from 0 to MaxTime
MaxRequests == 2      \* proxy requests handled in one run

\* ------------------------------------------------------- program constants
DEFAULT_TTL == 300    \* settings.cache_ttl, MemoryCacheBackend.default_ttl

None == -1            \* Python's None where an int (ttl, object id) is optional

VARIABLES
    backend,      \* settings.cache_backend: "memory" or "redis"
    max_size,     \* MemoryCacheBackend.max_size
    now,          \* time.time()
    cache,        \* MemoryCacheBackend._cache: OrderedDict, index 1 = oldest
    rstore,       \* the redis server's key space: key -> pickled value, expiry
    heap,         \* the ProxyResponse objects alive in the process, by id
    cache_stats,  \* main.cache_stats
    req,          \* the process_proxy_request coroutines, by slot
    read_failures,\* how many requests ended because the store read raised
    last_call,    \* the most recent direct store call and what it returned
    recency,      \* keys in the order of their latest successful get or set
    running       \* the coroutine the event loop is running, None between two

vars == <<backend, max_size, now, cache, rstore, heap, cache_stats, req,
          read_failures, last_call, recency,
                   running>>

\* ------------------------------------------------------------- requests
Urls == {"/a", "/b", "/c"}
HeaderSets == {"h0", "h1"}

\* A dict is the sequence of its <<name, value>> items in insertion order
\* (names distinct).  An Optional dict or body says whether it is given.
NoDict == [given |-> FALSE, items |-> <<>>]
Dict(items) == [given |-> TRUE, items |-> items]

\* the order of names that sorting goes by
NameOrder == <<"p", "q">>
Rank(name) == CHOOSE i \in 1..Len(NameOrder) : NameOrder[i] = name

\* the items as json.dumps writes them without sort_keys: as inserted
SortedItems_AsInserted(items) == items

\* the items as json.dumps(..., sort_keys=True) writes them: by name
SortedItems(items) ==
    [j \in 1..Len(items) |->
        items[CHOOSE i \in 1..Len(items) :
                 Cardinality({k \in 1..Len(items) :
                                 Rank(items[k][1]) < Rank(items[i][1])})
                     = j - 1]]

\* json.dumps of an Optional dict: "null" for None, else the sorted object
JsonDumps(v) ==
    IF v.given THEN <<"{">> \o SortedItems(v.items) \o <<"}">>
    ELSE <<"null">>

\* "request.params or {}": None and the empty dict both give {}
ParamsOrEmpty(params) ==
    IF params.given /\ params.items # <<>> THEN params ELSE Dict(<<>>)

\* models.ProxyRequest, restricted to the fields the key is derived from
\* plus headers; these requests carry neither params nor body
Requests == [url: Urls, method: {"GET"}, params: {NoDict}, body: {NoDict},
             headers: HeaderSets]

\* main.generate_cache_key: the digest of the JSON, keys sorted, of
\* (url, method, params or {}, body); the digest is taken to be injective.
generate_cache_key(request) ==
    <<request.url, request.method,
      JsonDumps(ParamsOrEmpty(request.params)), JsonDumps(request.body)>>

CacheKeys == {generate_cache_key(r) : r \in Requests}

\* --------------------------------------------- MemoryCacheBackend (pure)
\* Position of key in the OrderedDict c, 0 when absent.
IndexOf(c, key) ==
    IF \E i \in 1..Len(c) : c[i].key = key
    THEN CHOOSE i \in 1..Len(c) : c[i].key = key
    ELSE 0

Contains(c, key) == \E i \in 1..Len(c) : c[i].key = key

\* del c[key]
Remove(c, key) ==
    LET i == IndexOf(c, key)
    IN  IF i = 0 THEN c
        ELSE SubSeq(c, 1, i - 1) \o SubSeq(c, i + 1, Len(c))

\* OrderedDict.move_to_end(key)
MoveToEnd(c, key) ==
    LET i == IndexOf(c, key)
    IN  IF i = 0 THEN c ELSE Append(Remove(c, key), c[i])

\* OrderedDict.popitem(last=False)
PopFirst(c) == Tail(c)

\* MemoryCacheBackend.delete
MemDelete(c, key) == IF Contains(c, key) THEN Remove(c, key) ELSE c

\* a get that treats an entry as expired already at now = expiry
MemGet_ExpiresEarly(c, key, t) ==
    IF ~Contains(c, key) THEN [cache |-> c, ret |-> None]
    ELSE LET e == c[IndexOf(c, key)]
         IN  IF t >= e.expiry
             THEN [cache |-> MemDelete(c, key), ret |-> None]
             ELSE [cache |-> MoveToEnd(c, key), ret |-> e.value]

\* a get that returns the value without touching the order
MemGet_NoTouch(c, key, t) ==
    IF ~Contains(c, key) THEN [cache |-> c, ret |-> None]
    ELSE LET e == c[IndexOf(c, key)]
         IN  IF t > e.expiry
             THEN [cache |-> MemDelete(c, key), ret |-> None]
             ELSE [cache |-> c, ret |-> e.value]

\* a get that gives the entry it returns one more second to live
MemGet_ExtendsOnHit(c, key, t) ==
    IF ~Contains(c, key) THEN [cache |-> c, ret |-> None]
    ELSE LET e == c[IndexOf(c, key)]
         IN  IF t > e.expiry
             THEN [cache |-> MemDelete(c, key), ret |-> None]
             ELSE [cache |-> Append(Remove(c, key),
                                    [e EXCEPT !.expiry = t + 1]),
                   ret |-> e.value]

\* MemoryCacheBackend.get: the new mapping and the returned value
MemGet(c, key, t) ==
    IF ~Contains(c, key) THEN [cache |-> c, ret |-> None]
    ELSE LET e == c[IndexOf(c, key)]
         IN  IF t > e.expiry
             THEN [cache |-> MemDelete(c, key), ret |-> None]
             ELSE [cache |-> MoveToEnd(c, key), ret |-> e.value]

\* a set that overwrites the key where it stands
RemoveOld_InPlace(c, key) == c

\* MemoryCacheBackend.set, "Remove if exists to update position"
RemoveOld(c, key) == IF Contains(c, key) THEN Remove(c, key) ELSE c

\* an eviction test that lets the mapping grow one past max_size
Evict_OffByOne(c, maxsz) == IF Len(c) > maxsz THEN PopFirst(c) ELSE c

\* an eviction that drops the oldest expired entry when there is one, and
\* the least recently used entry only otherwise
Evict_ExpiredFirst(c, maxsz) ==
    IF Len(c) < maxsz THEN c
    ELSE IF \E i \in 1..Len(c) : c[i].expiry < now
         THEN Remove(c, c[CHOOSE i \in 1..Len(c) :
                             /\ c[i].expiry < now
                             /\ \A j \in 1..(i - 1) : c[j].expiry >= now].key)
         ELSE PopFirst(c)

\* MemoryCacheBackend.set, "Check size and evict if needed (LRU)"
Evict(c, maxsz) == IF Len(c) >= maxsz THEN PopFirst(c) ELSE c

\* a set that leaves an entry already held under the key as it is
MemSet_KeepExisting(c, key, value, ttl, t, maxsz) ==
    IF Contains(c, key) THEN c
    ELSE Append(Evict(c, maxsz),
                [key |-> key, value |-> value,
                 expiry |-> t + (IF ttl = None THEN DEFAULT_TTL ELSE ttl)])

\* MemoryCacheBackend.set
MemSet(c, key, value, ttl, t, maxsz) ==
    LET ttl1   == IF ttl = None THEN DEFAULT_TTL ELSE ttl
        expiry == t + ttl1
        c1     == RemoveOld(c, key)
        c2     == Evict(c1, maxsz)
    IN  Append(c2, [key |-> key, value |-> value, expiry |-> expiry])

\* MemoryCacheBackend.exists: the new mapping and the returned boolean
MemExists(c, key, t) ==
    IF ~Contains(c, key) THEN [cache |-> c, ret |-> FALSE]
    ELSE LET e == c[IndexOf(c, key)]
         IN  IF t > e.expiry
             THEN [cache |-> MemDelete(c, key), ret |-> FALSE]
             ELSE [cache |-> c, ret |-> TRUE]

\* ------------------------------------------------ ProxyResponse objects
NoKey == <<>>

\* no object lives under this id
NoObj == [status_code |-> 0, cache_control |-> <<>>,
          from_cache |-> FALSE, cache_key |-> NoKey]

\* models.ProxyResponse as built by make_http_request, cache_key attached
NewResponse(resp, key) ==
    [status_code |-> resp.status_code, cache_control |-> resp.cache_control,
     from_cache |-> FALSE, cache_key |-> key]

\* ------------------------------------------------- RedisCacheBackend
\* the server holds no such key
NoEntry == [data |-> NoObj, expire_at |-> 0]

\* the server's key space with nothing in it
RedisEmpty == [k \in CacheKeys |-> NoEntry]

\* the server drops the keys whose time has run out
RedisExpire(rs, t) ==
    [k \in CacheKeys |-> IF t < rs[k].expire_at THEN rs[k] ELSE NoEntry]

\* GET key: the live entry, as a set of at most one element
RedisLive(rs, key, t) == {e \in {rs[key]} : t < e.expire_at}

\* DEL key
RedisDel(rs, key) == [rs EXCEPT ![key] = NoEntry]

\* SETEX key ttl data
RedisSetex(rs, key, data, ttl, t) ==
    RedisExpire([rs EXCEPT ![key] = [data |-> data, expire_at |-> t + ttl]], t)

\* ------------------------------------ the store driven directly by calls
Values == {1, 2}
Ttls == {None, 0, 1}

KeysOf(c) == {c[i].key : i \in 1..Len(c)}
KeySeq(c) == [i \in 1..Len(c) |-> c[i].key]
EntryOf(c, key) == c[IndexOf(c, key)]

\* recency after a successful get or set of key
Touch(r, key) == Append(SelectSeq(r, LAMBDA k : k # key), key)

\* recency keeps the keys that are still in the mapping c
Present(r, c) == SelectSeq(r, LAMBDA k : Contains(c, k))

\* A direct call as its caller sees it: the arguments, the returned value,
\* whether the key was in the mapping before, and the keys that left it.
Call(op, key, value, ttl, ret, c, c1) ==
    [op |-> op, key |-> key, value |-> value, ttl |-> ttl, ret |-> ret,
     had |-> key \in KeysOf(c), removed |-> KeysOf(c) \ KeysOf(c1)]

NoCall == [op |-> "none", key |-> <<>>, value |-> None, ttl |-> None,
           ret |-> None, had |-> FALSE, removed |-> {}]

\* ------------------------------------------------------------ the clock
Tick ==
    /\ now < MaxTime
    /\ last_call = NoCall
    /\ now' = now + 1
    /\ rstore' = IF backend = "redis" THEN RedisExpire(rstore, now') ELSE rstore
    /\ UNCHANGED <<backend, max_size, cache, heap, cache_stats, req,
                   read_failures, last_call, recency,
                   running>>

\* A call is made (last_call = NoCall) once the caller has taken the result
\* of the one before; the rest of the process is not involved.
StoreFrame ==
    UNCHANGED <<backend, max_size, now, rstore, heap, cache_stats, req,
                read_failures, running>>

\* The awaiting caller takes the returned value and goes on.
CallerResume ==
    /\ last_call # NoCall
    /\ last_call' = NoCall
    /\ UNCHANGED <<backend, max_size, now, cache, rstore, heap, cache_stats,
                   req, read_failures, recency,
                   running>>

CallGet(key) ==
    \E r \in {MemGet(cache, key, now)} :
        /\ last_call = NoCall
        /\ cache' = r.cache
        /\ last_call' = Call("get", key, None, None, r.ret, cache, cache')
        /\ recency' = Present(IF r.ret # None THEN Touch(recency, key)
                              ELSE recency, cache')
        /\ StoreFrame

CallSet(key, value, ttl) ==
    /\ last_call = NoCall
    /\ cache' = MemSet(cache, key, value, ttl, now, max_size)
    /\ last_call' = Call("set", key, value, ttl, None, cache, cache')
    /\ recency' = Present(Touch(recency, key), cache')
    /\ StoreFrame

CallDelete(key) ==
    /\ last_call = NoCall
    /\ cache' = MemDelete(cache, key)
    /\ last_call' = Call("delete", key, None, None, None, cache, cache')
    /\ recency' = Present(recency, cache')
    /\ StoreFrame

CallExists(key) ==
    \E r \in {MemExists(cache, key, now)} :
        /\ last_call = NoCall
        /\ cache' = r.cache
        /\ last_call' = Call("exists", key, None, None,
                             IF r.ret THEN 1 ELSE 0, cache, cache')
        /\ recency' = Present(recency, cache')
        /\ StoreFrame

InitStore ==
    /\ backend = "memory"
    /\ max_size \in 1..MaxSize
    /\ now = 0
    /\ cache = <<>>
    /\ rstore = <<>>
    /\ heap = <<>>
    /\ cache_stats = [hits |-> 0, misses |-> 0, total_requests |-> 0]
    /\ req = <<>>
    /\ read_failures = 0
    /\ last_call = NoCall
    /\ recency = <<>>
    /\ running = None

NextStore ==
    \/ Tick
    \/ CallerResume
    \/ \E key \in CacheKeys : CallGet(key)
    \/ \E key \in CacheKeys, value \in Values, ttl \in Ttls :
          CallSet(key, value, ttl)
    \/ \E key \in CacheKeys : CallDelete(key)
    \/ \E key \in CacheKeys : CallExists(key)

SpecStore == InitStore /\ [][NextStore]_vars

\* ======================================================= the application
\* ------------------------------------------------ CachePolicy (main.py)
\* str.lower() on the directives used here
Lower(tok) ==
    CASE tok = "No-Store" -> "no-store"
      [] tok = "No-Cache" -> "no-cache"
      [] tok = "Public"   -> "public"
      [] OTHER            -> tok

\* '"x" in cache_control': the header value is its sequence of directives
HasDirective(cache_control, x) ==
    \E i \in 1..Len(cache_control) : Lower(cache_control[i]) = x

\* a policy that compares the header value without lowering it
is_cacheable_response_CaseSensitive(status_code, cache_control) ==
    /\ status_code \in {200, 301, 302}
    /\ ~\E i \in 1..Len(cache_control) :
           cache_control[i] \in {"no-store", "no-cache"}

\* main.is_cacheable_response; cache_control = headers.get("cache-control", "")
is_cacheable_response(status_code, cache_control) ==
    IF status_code \notin {200, 301, 302} THEN FALSE
    ELSE IF HasDirective(cache_control, "no-store")
            \/ HasDirective(cache_control, "no-cache") THEN FALSE
    ELSE TRUE

\* what the origin may answer: status code and Cache-Control directives
OriginResponses ==
    { [status_code |-> 200, cache_control |-> <<>>],
      [status_code |-> 200, cache_control |-> <<"no-store">>],
      [status_code |-> 200, cache_control |-> <<"Public", "No-Cache">>],
      [status_code |-> 301, cache_control |-> <<"max-age=60">>],
      [status_code |-> 404, cache_control |-> <<>>] }

\* the requests clients send: two urls, with either set of headers
ProxyRequests == {r \in Requests : r.url \in {"/a", "/b"}}

\* the keys of those requests, also named in the administrative routes
ProxyKeys == {generate_cache_key(r) : r \in ProxyRequests}

\* the optional ttl query parameter of POST /proxy
TtlOverrides == {None, 0, 1}

\* ------------------------------------------------------ request records
\* the process_proxy_request coroutines that can be alive at once
Slots == {1, 2}
InFlight == {"getting", "fetching", "setting"}
Terminal == {"ServedFromCache", "ServedFromOrigin", "Failed"}

\* what the caller is handed: the fields of the returned ProxyResponse as
\* they are at the return, and whether it is the very object the store holds
NoRet == [status_code |-> 0, cache_control |-> <<>>, from_cache |-> FALSE,
          cache_key |-> NoKey, aliased |-> FALSE]

\* no coroutine has run in this slot yet
IdleRequest ==
    [pc |-> "idle", key |-> NoKey, ttl |-> None, obj |-> None,
     counted |-> "none", fetches |-> 0, sets |-> 0, raised |-> "none",
     arrived_live |-> FALSE, ret |-> NoRet]

\* a process_proxy_request coroutine that has just been entered
NewRequest(key, ttl) == [IdleRequest EXCEPT !.pc = "entered", !.key = key,
                                            !.ttl = ttl]

\* ids of ProxyResponse objects: those the store can hold plus one per slot
ObjIds == 1..(MaxSize + 2)

\* a fresh object id
Alloc(hp) == CHOOSE i \in ObjIds : /\ hp[i] = NoObj
                                   /\ \A j \in ObjIds : j < i => hp[j] # NoObj

\* objects no longer referenced by the store or by a coroutine are freed
Collect(hp, c, rq) ==
    [i \in ObjIds |->
        IF (\E n \in 1..Len(c) : c[n].value = i) \/ (\E sl \in Slots : rq[sl].obj = i)
        THEN hp[i] ELSE NoObj]

\* "cache_ttl = ttl or settings.cache_ttl"
CacheTtl(ttl) == IF ttl = None \/ ttl = 0 THEN DEFAULT_TTL ELSE ttl

\* -------------------------------------------- process_proxy_request
\* The part of the process a request works on: st = [req, cache_stats, heap].
Proc == [req |-> req, cache_stats |-> cache_stats, heap |-> heap]

\* the store holds an entry for key that a read at this moment returns
LiveEntry(key) ==
    IF backend = "memory"
    THEN Contains(cache, key) /\ now <= EntryOf(cache, key).expiry
    ELSE RedisLive(rstore, key, now) # {}

\* the slot the next coroutine runs in
FreeSlot == CHOOSE sl \in Slots :
               /\ req[sl].pc \notin InFlight
               /\ \A other \in Slots :
                     other < sl => req[other].pc \in InFlight

\* "cache_stats['total_requests'] += 1" and the key derived
Entered(st, sl, key, ttl) ==
    [st EXCEPT !.cache_stats.total_requests = @ + 1,
               !.req[sl] = NewRequest(key, ttl)]

\* a hit branch that returns the value found without marking it
ServeHit_Unmarked(st, sl, ref) ==
    [st EXCEPT !.cache_stats.hits = @ + 1,
               !.heap[ref].cache_key = st.req[sl].key,
               !.req[sl].pc = "ServedFromCache",
               !.req[sl].obj = ref,
               !.req[sl].counted = "hit"]

\* the hit branch: hits += 1, the value found (object ref) is marked and
\* returned
ServeHit(st, sl, ref) ==
    [st EXCEPT !.cache_stats.hits = @ + 1,
               !.heap[ref].from_cache = TRUE,
               !.heap[ref].cache_key = st.req[sl].key,
               !.req[sl].pc = "ServedFromCache",
               !.req[sl].obj = ref,
               !.req[sl].counted = "hit"]

\* a miss branch that counts the miss twice
StartFetch_CountsTwice(st, sl) ==
    [st EXCEPT !.cache_stats.misses = @ + 2,
               !.req[sl].pc = "fetching",
               !.req[sl].counted = "miss",
               !.req[sl].fetches = @ + 1]

\* the miss branch: misses += 1, make_http_request is called and awaited
StartFetch(st, sl) ==
    [st EXCEPT !.cache_stats.misses = @ + 1,
               !.req[sl].pc = "fetching",
               !.req[sl].counted = "miss",
               !.req[sl].fetches = @ + 1]

\* a collaborator (the store's get or set, the fetcher) raises in request sl
Raised(st, sl, by) == [st EXCEPT !.req[sl].raised = by]

\* the exception leaves process_proxy_request: the coroutine's locals are gone
Propagate(st, sl) ==
    [st EXCEPT !.req[sl].pc = "Failed", !.req[sl].obj = None,
               !.req[sl].ttl = None]

\* "return response" / "return cached_response": the caller is handed the
\* object (c is the store's mapping at that moment) and the coroutine's
\* locals are gone
Return(st, sl, c) ==
    LET ref == st.req[sl].obj
    IN  [st EXCEPT !.req[sl].ret =
                       [status_code   |-> st.heap[ref].status_code,
                        cache_control |-> st.heap[ref].cache_control,
                        from_cache    |-> st.heap[ref].from_cache,
                        cache_key     |-> st.heap[ref].cache_key,
                        aliased       |-> \E n \in 1..Len(c) :
                                             c[n].value = ref],
                   !.req[sl].obj = None,
                   !.req[sl].ttl = None]

\* the miss path ends: ServedFromOrigin
ReturnOrigin(st, sl, c) ==
    Return([st EXCEPT !.req[sl].pc = "ServedFromOrigin"], sl, c)

\* a store read that raised, swallowed and taken for a miss
FailRead_AsMiss(st, sl) == StartFetch(st, sl)

\* the store read raised
FailRead(st, sl) == Propagate(st, sl)

\* the store write raised
FailWrite(st, sl) == Propagate(st, sl)

\* a handler that would call the fetcher a second time before giving up
FailFetch_RetriesOnce(st, sl) ==
    [Propagate(st, sl) EXCEPT !.req[sl].fetches = @ + 1]

\* make_http_request raised
FailFetch(st, sl) == Propagate(st, sl)

\* make_http_request returned: the response object exists, cache_key attached
Fetched(st, sl, resp) ==
    LET ref == Alloc(st.heap)
    IN  [st EXCEPT !.heap[ref] = NewResponse(resp, st.req[sl].key),
                   !.req[sl].obj = ref]

\* "await cache_manager.set(cache_key, response, cache_ttl)" is called
SetCalled(st, sl) == [st EXCEPT !.req[sl].sets = @ + 1]

\* the step's result: what the request did to the process and c, the
\* memory store's mapping, with unreferenced objects freed
Commit(st, c) ==
    /\ req' = st.req
    /\ cache_stats' = st.cache_stats
    /\ cache' = c
    /\ heap' = Collect(st.heap, c, st.req)

\* POST /proxy or the /http/ middleware enters process_proxy_request:
\* total_requests += 1, the key is derived, the store is read.  With the
\* memory backend the read completes without yielding to the event loop.
Begin(request, ttl) ==
    /\ cache_stats.total_requests < MaxRequests
    /\ \E sl \in Slots : req[sl].pc \notin InFlight
    /\ \E key \in {generate_cache_key(request)}, sl \in {FreeSlot} :
       \E st \in {Entered(Proc, sl, key, ttl)} :
           IF backend = "memory"
           THEN \E g \in {MemGet(cache, key, now)} :
                   Commit(IF g.ret # None
                          THEN Return(ServeHit(st, sl, g.ret), sl, g.cache)
                          ELSE StartFetch(st, sl),
                          g.cache)
           ELSE Commit([st EXCEPT !.req[sl].pc = "getting",
                                  !.req[sl].arrived_live = LiveEntry(key)],
                       cache)
    /\ UNCHANGED <<backend, max_size, now, rstore, read_failures, last_call,
                   recency,
                   running>>

\* RedisCacheBackend.get answers (ok) or raises, and the coroutine goes on:
\* pickle.loads builds a new object from the stored bytes.
RedisGet(sl, ok) ==
    /\ req[sl].pc = "getting"
    /\ read_failures' = IF ok THEN read_failures ELSE read_failures + 1
    /\ \E st \in {[Proc EXCEPT !.req[sl].arrived_live = FALSE]} :
          IF ~ok THEN Commit(FailRead(Raised(st, sl, "get"), sl), cache)
          ELSE LET live == RedisLive(rstore, req[sl].key, now)
                   ref  == Alloc(heap)
               IN  IF live # {}
                   THEN \E e \in live :
                           Commit(Return(ServeHit([st EXCEPT
                                                      !.heap[ref] = e.data],
                                                  sl, ref), sl, cache), cache)
                   ELSE Commit(StartFetch(st, sl), cache)
    /\ UNCHANGED <<backend, max_size, now, rstore, last_call, recency,
                   running>>

\* make_http_request raises
FetchFail(sl) ==
    /\ req[sl].pc = "fetching"
    /\ Commit(FailFetch(Raised(Proc, sl, "fetch"), sl), cache)
    /\ UNCHANGED <<backend, max_size, now, rstore, read_failures, last_call,
                   recency,
                   running>>

\* make_http_request returns resp; "Cache if cacheable"; with the memory
\* backend the set completes without yielding and the response is returned.
FetchDone(sl, resp) ==
    /\ req[sl].pc = "fetching"
    /\ \E st \in {Fetched(Proc, sl, resp)} :
          IF is_cacheable_response(resp.status_code, resp.cache_control)
          THEN IF backend = "memory"
               THEN \E c \in {MemSet(cache, req[sl].key, st.req[sl].obj,
                                      CacheTtl(req[sl].ttl), now, max_size)} :
                       Commit(ReturnOrigin(SetCalled(st, sl), sl, c), c)
               ELSE Commit([SetCalled(st, sl) EXCEPT
                               !.req[sl].pc = "setting"], cache)
          ELSE Commit(ReturnOrigin(st, sl, cache), cache)
    /\ UNCHANGED <<backend, max_size, now, rstore, read_failures, last_call,
                   recency,
                   running>>

\* RedisCacheBackend.set: SETEX stores the pickled response (ok) or raises
RedisSet(sl, ok) ==
    /\ req[sl].pc = "setting"
    /\ IF ok
       THEN /\ rstore' = RedisSetex(rstore, req[sl].key, heap[req[sl].obj],
                                    CacheTtl(req[sl].ttl), now)
            /\ Commit(ReturnOrigin(Proc, sl, cache), cache)
       ELSE /\ rstore' = rstore
            /\ Commit(FailWrite(Raised(Proc, sl, "set"), sl), cache)
    /\ UNCHANGED <<backend, max_size, now, read_failures, last_call, recency,
                   running>>

\* ------------------------------------------------ administrative routes
\* The store holds an entry under key.  A get or a delete of a key the store
\* does not hold changes nothing: such calls are stuttering steps.
Holds(key) ==
    IF backend = "memory" THEN Contains(cache, key) ELSE rstore[key] # NoEntry

\* GET /cache/info/{cache_key}: cache_manager.get, nothing written back
GetCacheInfo(key) ==
    /\ Holds(key)
    /\ Commit(Proc, IF backend = "memory" THEN MemGet(cache, key, now).cache
                     ELSE cache)
    /\ UNCHANGED <<backend, max_size, now, rstore, read_failures, last_call,
                   recency,
                   running>>

\* DELETE /cache/{cache_key}: cache_manager.delete
DeleteCacheItem(key) ==
    /\ Holds(key)
    /\ IF backend = "memory"
       THEN /\ rstore' = rstore
            /\ Commit(Proc, MemDelete(cache, key))
       ELSE /\ rstore' = RedisDel(rstore, key)
            /\ Commit(Proc, cache)
    /\ UNCHANGED <<backend, max_size, now, read_failures, last_call, recency,
                   running>>

Init ==
    /\ backend \in {"memory", "redis"}
    /\ max_size \in IF backend = "memory" THEN {1, MaxSize} ELSE {MaxSize}
    /\ now = 0
    /\ cache = <<>>
    /\ rstore = RedisEmpty
    /\ heap = [i \in ObjIds |-> NoObj]
    /\ cache_stats = [hits |-> 0, misses |-> 0, total_requests |-> 0]
    /\ req = [sl \in Slots |-> IdleRequest]
    /\ read_failures = 0
    /\ last_call = NoCall
    /\ recency = <<>>
    /\ running = None

Next ==
    \/ Tick
    \/ \E request \in ProxyRequests, ttl \in TtlOverrides : Begin(request, ttl)
    \/ \E sl \in Slots, ok \in BOOLEAN : RedisGet(sl, ok)
    \/ \E sl \in Slots : FetchFail(sl)
    \/ \E sl \in Slots, resp \in OriginResponses : FetchDone(sl, resp)
    \/ \E sl \in Slots, ok \in BOOLEAN : RedisSet(sl, ok)
    \/ \E key \in ProxyKeys : GetCacheInfo(key)
    \/ \E key \in ProxyKeys : DeleteCacheItem(key)

Spec == Init /\ [][Next]_vars

\* round(x, 2) of the quotient num / den, counted in hundredths.  No quotient
\* formed here falls half way between two hundredths (that needs a
\* denominator divisible by 32), so the direction of rounding a tie is moot.
RoundHundredths(num, den) == (2 * 100 * num + den) \div (2 * den)

\* main.get_stats, GET /stats: the counters, hit_rate (in hundredths) and
\* the backend's name
get_stats ==
    [total_requests |-> cache_stats.total_requests,
     cache_hits     |-> cache_stats.hits,
     cache_misses   |-> cache_stats.misses,
     hit_rate       |-> IF cache_stats.total_requests > 0
                        THEN RoundHundredths(cache_stats.hits * 100,
                                             cache_stats.total_requests)
                        ELSE 0,
     cache_backend  |-> backend]

\* ============================ the store's operations, statement by statement
\* The coroutines of the one event loop that share the MemoryCacheBackend.
\* Each statement of a store operation is a step; another coroutine runs
\* only when the running one is suspended or has finished.

\* a store that hands the event loop over just before it inserts
Suspends_BeforeInsert(pc) == pc = "s_ins"

\* Whether a coroutine standing before statement pc of a store operation is
\* suspended there.  The only await inside MemoryCacheBackend is
\* "await self.delete(key)", a coroutine that runs on the spot; CacheManager
\* awaits the backend's coroutine the same way.
Suspends(pc) == FALSE

\* the statements of get, set, delete and exists
OpPcs == {"g_in", "g_read", "g_del", "g_move",
          "s_ttl", "s_del", "s_evict", "s_ins",
          "d_in", "d_del",
          "e_in", "e_read", "e_del"}

\* what invokes the store: process_proxy_request (get, then set after the
\* fetch), get_cache_info (get), delete_cache_item (delete), and exists
Kinds == {"proxy", "info", "delete", "exists"}

FirstPc(kind) ==
    CASE kind \in {"proxy", "info"} -> "g_in"
      [] kind = "delete"            -> "d_in"
      [] kind = "exists"            -> "e_in"

\* a coroutine: its position, the arguments and locals of the operation it
\* is in, the mapping and the clock as the operation found them, its result
IdleTask ==
    [kind |-> "none", pc |-> "idle", key |-> NoKey, ttl |-> None,
     data |-> None, expiry |-> None, start |-> <<>>, t |-> None,
     ret |-> None]

MidOp(task) == task.pc \in OpPcs

\* coroutine co may execute its next statement
Turn(co) == running = co \/ (running = None /\ MidOp(req[co]))

\* who runs after co has moved to pc
RunsNext(co, pc) == IF pc \in OpPcs /\ ~Suspends(pc) THEN co ELSE None

LoopFrame ==
    UNCHANGED <<backend, max_size, now, rstore, heap, read_failures,
                last_call, recency>>

\* co moves to pc with its record and the mapping updated
Move(co, task, c) ==
    /\ req' = [req EXCEPT ![co] = task]
    /\ cache' = c
    /\ running' = RunsNext(co, task.pc)
    /\ LoopFrame

\* the operation returns ret to the handler that awaited it, and its locals
\* are gone; process_proxy_request goes on to the fetch when get found
\* nothing, every other handler returns
Returned(co, task, ret) ==
    IF task.kind = "proxy" /\ task.pc \in {"g_in", "g_del"}
    THEN [IdleTask EXCEPT !.kind = "proxy", !.pc = "fetching",
                          !.key = task.key, !.ttl = task.ttl]
    ELSE [IdleTask EXCEPT !.pc = "done", !.ret = ret]

\* process_proxy_request is entered and calls cache_manager.get
InvokeProxy(co, key, ttl) ==
    /\ running = None
    /\ req[co].pc \in {"idle", "done"}
    /\ cache_stats.total_requests < MaxRequests
    /\ cache_stats' = [cache_stats EXCEPT !.total_requests = @ + 1]
    /\ Move(co, [IdleTask EXCEPT !.kind = "proxy", !.pc = FirstPc("proxy"),
                                 !.key = key, !.ttl = ttl, !.start = cache],
            cache)

\* an administrative handler, or a caller of exists, calls the store
InvokeAdmin(co, kind, key) ==
    /\ running = None
    /\ req[co].pc \in {"idle", "done"}
    /\ Move(co, [IdleTask EXCEPT !.kind = kind, !.pc = FirstPc(kind),
                                 !.key = key, !.start = cache],
            cache)
    /\ UNCHANGED cache_stats

\* MemoryCacheBackend.get, lines 28-38
GetStep(co) ==
    LET task == req[co]
        k    == task.key
    IN  /\ Turn(co)
        /\ task.pc \in {"g_in", "g_read", "g_del", "g_move"}
        /\ \E nxt \in {CASE task.pc = "g_in" ->
                             IF ~Contains(cache, k)
                             THEN [task |-> Returned(co, task, None), c |-> cache]
                             ELSE [task |-> [task EXCEPT !.pc = "g_read"],
                                   c |-> cache]
                         [] task.pc = "g_read" ->
                             [task |-> [task EXCEPT
                                  !.data = EntryOf(cache, k).value,
                                  !.expiry = EntryOf(cache, k).expiry,
                                  !.t = now,
                                  !.pc = IF now > EntryOf(cache, k).expiry
                                         THEN "g_del" ELSE "g_move"],
                              c |-> cache]
                         [] task.pc = "g_del" ->
                             [task |-> Returned(co, task, None),
                              c |-> MemDelete(cache, k)]
                         [] task.pc = "g_move" ->
                             [task |-> Returned(co, task, task.data),
                              c |-> MoveToEnd(cache, k)]} :
              /\ Move(co, nxt.task, nxt.c)
              /\ cache_stats' =
                    IF task.kind # "proxy" \/ MidOp(nxt.task) THEN cache_stats
                    ELSE IF nxt.task.pc = "done"
                    THEN [cache_stats EXCEPT !.hits = @ + 1]
                    ELSE [cache_stats EXCEPT !.misses = @ + 1]

\* the fetch is over: process_proxy_request calls set, or returns without
ResumeAfterFetch(co, cacheable) ==
    /\ running = None
    /\ req[co].pc = "fetching"
    /\ Move(co, IF cacheable
                THEN [req[co] EXCEPT !.pc = "s_ttl", !.start = cache,
                                     !.ttl = CacheTtl(@), !.t = None]
                ELSE [IdleTask EXCEPT !.pc = "done"],
            cache)
    /\ UNCHANGED cache_stats

\* MemoryCacheBackend.set, lines 41-54; the value written is named after co
SetStep(co) ==
    LET task == req[co]
        k    == task.key
    IN  /\ Turn(co)
        /\ task.pc \in {"s_ttl", "s_del", "s_evict", "s_ins"}
        /\ \E nxt \in {CASE task.pc = "s_ttl" ->
                             [task |-> [task EXCEPT
                                  !.expiry = now + (IF task.ttl = None
                                                    THEN DEFAULT_TTL
                                                    ELSE task.ttl),
                                  !.t = now, !.pc = "s_del"],
                              c |-> cache]
                         [] task.pc = "s_del" ->
                             [task |-> [task EXCEPT !.pc = "s_evict"],
                              c |-> RemoveOld(cache, k)]
                         [] task.pc = "s_evict" ->
                             [task |-> [task EXCEPT !.pc = "s_ins"],
                              c |-> Evict(cache, max_size)]
                         [] task.pc = "s_ins" ->
                             [task |-> Returned(co, task, None),
                              c |-> Append(RemoveOld(cache, k),
                                           [key |-> k, value |-> co,
                                            expiry |-> task.expiry])]} :
              Move(co, nxt.task, nxt.c)
        /\ UNCHANGED cache_stats

\* MemoryCacheBackend.delete, lines 57-58
DeleteStep(co) ==
    LET task == req[co]
    IN  /\ Turn(co)
        /\ task.pc \in {"d_in", "d_del"}
        /\ IF task.pc = "d_in" /\ Contains(cache, task.key)
           THEN Move(co, [task EXCEPT !.pc = "d_del"], cache)
           ELSE Move(co, Returned(co, task, None), MemDelete(cache, task.key))
        /\ UNCHANGED cache_stats

\* MemoryCacheBackend.exists, lines 61-68; the answer is 1 for True
ExistsStep(co) ==
    LET task == req[co]
        k    == task.key
    IN  /\ Turn(co)
        /\ task.pc \in {"e_in", "e_read", "e_del"}
        /\ \E nxt \in {CASE task.pc = "e_in" ->
                             IF ~Contains(cache, k)
                             THEN [task |-> Returned(co, task, 0), c |-> cache]
                             ELSE [task |-> [task EXCEPT !.pc = "e_read"],
                                   c |-> cache]
                         [] task.pc = "e_read" ->
                             IF now > EntryOf(cache, k).expiry
                             THEN [task |-> [task EXCEPT !.pc = "e_del",
                                                         !.t = now],
                                   c |-> cache]
                             ELSE [task |-> Returned(co, [task EXCEPT !.t = now],
                                                     1),
                                   c |-> cache]
                         [] task.pc = "e_del" ->
                             [task |-> Returned(co, task, 0),
                              c |-> MemDelete(cache, k)]} :
              Move(co, nxt.task, nxt.c)
        /\ UNCHANGED cache_stats

\* the clock moves, whoever is running
LoopTick ==
    /\ now < MaxTime
    /\ now' = now + 1
    /\ UNCHANGED <<backend, max_size, cache, rstore, heap, cache_stats, req,
                   read_failures, last_call, recency, running>>

InitLoop ==
    /\ backend = "memory"
    /\ max_size \in 1..MaxSize
    /\ now = 0
    /\ cache = <<>>
    /\ rstore = <<>>
    /\ heap = <<>>
    /\ cache_stats = [hits |-> 0, misses |-> 0, total_requests |-> 0]
    /\ req = [co \in Slots |-> IdleTask]
    /\ read_failures = 0
    /\ last_call = NoCall
    /\ recency = <<>>
    /\ running = None

NextLoop ==
    \/ LoopTick
    \/ \E co \in Slots, key \in ProxyKeys, ttl \in TtlOverrides :
          InvokeProxy(co, key, ttl)
    \/ \E co \in Slots, kind \in Kinds \ {"proxy"}, key \in ProxyKeys :
          InvokeAdmin(co, kind, key)
    \/ \E co \in Slots : GetStep(co)
    \/ \E co \in Slots, cacheable \in BOOLEAN : ResumeAfterFetch(co, cacheable)
    \/ \E co \in Slots : SetStep(co)
    \/ \E co \in Slots : DeleteStep(co)
    \/ \E co \in Slots : ExistsStep(co)

SpecLoop == InitLoop /\ [][NextLoop]_vars

\* ============================================ DELETE requests, as routed
\* The last segment of the path DELETE /cache/<segment>: a cache key, or
\* the word "clear", which is the digest of no request.
Clear == <<"clear">>
Segments == CacheKeys \cup {Clear}

\* the DELETE routes in the order main.py declares them
DeleteRoutes ==
    << [path |-> "/cache/{cache_key}", handler |-> "delete_cache_item"],
       [path |-> "/cache/clear",       handler |-> "clear_cache"] >>

\* the route's path matches /cache/<segment>: a path parameter takes any
\* one segment, a literal only itself
Matches(route, segment) ==
    IF route.path = "/cache/{cache_key}" THEN TRUE ELSE segment = Clear

\* the router hands the request to the first declared route that matches
Dispatch(segment) ==
    DeleteRoutes[CHOOSE i \in 1..Len(DeleteRoutes) :
                    /\ Matches(DeleteRoutes[i], segment)
                    /\ \A j \in 1..(i - 1) :
                          ~Matches(DeleteRoutes[j], segment)].handler

\* main.delete_cache_item: cache_manager.delete(cache_key)
delete_cache_item(c, cache_key) == MemDelete(c, cache_key)

\* main.clear_cache: the memory backend's mapping is cleared
clear_cache(c) == IF backend = "memory" THEN <<>> ELSE c

\* a client sends DELETE /cache/<segment>
DeleteRequest(segment) ==
    /\ last_call = NoCall
    /\ cache' = IF Dispatch(segment) = "delete_cache_item"
                THEN delete_cache_item(cache, segment)
                ELSE clear_cache(cache)
    /\ last_call' = Call("DELETE", segment, None, None, None, cache, cache')
    /\ recency' = Present(recency, cache')
    /\ StoreFrame

\* the store is filled by sets, time passes, DELETE requests arrive
NextRoutes ==
    \/ Tick
    \/ CallerResume
    \/ \E key \in CacheKeys, value \in Values, ttl \in Ttls :
          CallSet(key, value, ttl)
    \/ \E segment \in Segments : DeleteRequest(segment)

SpecRoutes == InitStore /\ [][NextRoutes]_vars

\* ================================================= key derivation on its own
\* Requests that differ in every field the derivation reads or ignores:
\* params absent, empty and with the same items inserted in either order,
\* body absent and a mapping with its items in either order.
ItemP == <<"p", 1>>
ItemQ == <<"q", 2>>
ParamDicts == {NoDict, Dict(<<>>), Dict(<<ItemP>>),
               Dict(<<ItemP, ItemQ>>), Dict(<<ItemQ, ItemP>>)}
Bodies == {NoDict, Dict(<<ItemP, ItemQ>>), Dict(<<ItemQ, ItemP>>)}
KeyRequests == [url: {"/a", "/b"}, method: {"GET", "POST"},
                params: ParamDicts, body: Bodies, headers: HeaderSets]

\* a request before generate_cache_key has been called on it
Underived(request) == [request |-> request, key |-> NoKey]

\* cache_key = generate_cache_key(request), main.py:98
DeriveKey(i) ==
    /\ req[i].key = NoKey
    /\ req' = [req EXCEPT ![i].key = generate_cache_key(req[i].request)]
    /\ UNCHANGED <<backend, max_size, now, cache, rstore, heap, cache_stats,
                   read_failures, last_call, recency, running>>

InitKey ==
    /\ backend = "memory"
    /\ max_size = MaxSize
    /\ now = 0
    /\ cache = <<>>
    /\ rstore = <<>>
    /\ heap = <<>>
    /\ cache_stats = [hits |-> 0, misses |-> 0, total_requests |-> 0]
    /\ req \in [Slots -> {Underived(r) : r \in KeyRequests}]
    /\ read_failures = 0
    /\ last_call = NoCall
    /\ recency = <<>>
    /\ running = None

NextKey == \E i \in Slots : DeriveKey(i)

SpecKey == InitKey /\ [][NextKey]_vars

\* ================================================== claims on the store
KeyA == <<"/a", "GET", <<"{", "}">>, <<"null">>>>
KeyB == <<"/b", "GET", <<"{", "}">>, <<"null">>>>
KeyC == <<"/c", "GET", <<"{", "}">>, <<"null">>>>

\* C1: the store never holds more than max_size entries, and a set of a new
\* key that finds the store full removes the entry at the least-recently-used
\* end and then appends the new entry, leaving the others as they were.
C1_SizeBound ==
    [][ /\ Len(cache') <= max_size
        /\ Len(cache) <= max_size
        /\ (last_call'.op = "set" /\ ~last_call'.had /\ Len(cache) >= max_size)
              => /\ Len(cache') = Len(cache)
                 /\ SubSeq(cache', 1, Len(cache') - 1) = Tail(cache)
                 /\ cache'[Len(cache')].key = last_call'.key
                 /\ last_call'.removed = {Head(cache).key} ]_vars

C1_Witness ==
    /\ last_call.op = "set" /\ ~last_call.had /\ last_call.removed # {}
    /\ max_size = 2 /\ Len(cache) = 2

\* the expiry a set with this ttl argument assigns at the current time
ExpiresAt(ttl) == now + (IF ttl = None THEN DEFAULT_TTL ELSE ttl)

\* C2: get(k) returns the stored value exactly when k is present and
\* now <= expiresAt, where expiresAt = time of the set + ttl and an entry
\* keeps its value and expiry until it is set again or removed; a get past
\* expiresAt returns None and leaves k out of the store.
C2_GetFresh ==
    [][ /\ last_call'.op = "get" =>
              LET k == last_call'.key
              IN  IF Contains(cache, k) /\ now <= EntryOf(cache, k).expiry
                  THEN /\ last_call'.ret = EntryOf(cache, k).value
                       /\ Contains(cache', k)
                  ELSE /\ last_call'.ret = None
                       /\ ~Contains(cache', k)
        /\ last_call'.op = "set" =>
              /\ Contains(cache', last_call'.key)
              /\ EntryOf(cache', last_call'.key).value = last_call'.value
              /\ EntryOf(cache', last_call'.key).expiry = ExpiresAt(last_call'.ttl)
        /\ \A k \in KeysOf(cache) \cap KeysOf(cache') :
              (last_call'.op = "set" /\ last_call'.key = k)
              \/ EntryOf(cache', k) = EntryOf(cache, k) ]_vars

\* a get that found its entry expired after a set with ttl = 1
C2_Witness ==
    /\ last_call.op = "get" /\ last_call.had /\ last_call.ret = None
    /\ last_call.removed = {last_call.key}
    /\ now = 2

\* a get that returned the value at the very instant now = expiresAt
C2_WitnessFresh ==
    /\ last_call.op = "get" /\ last_call.ret # None
    /\ Contains(cache, last_call.key)
    /\ EntryOf(cache, last_call.key).expiry = now

\* C3: a set of a new key into a full store evicts the present entry whose
\* latest successful get or set is the oldest (with max_size = 2:
\* set(a), set(b), get(a), set(c) leaves a and c and drops b).
C3_EvictsOldestUse ==
    [][ (last_call'.op = "set" /\ ~last_call'.had /\ Len(cache) >= max_size)
           => /\ last_call'.removed = {Head(recency)}
              /\ KeysOf(cache') = (KeysOf(cache) \ {Head(recency)})
                                     \cup {last_call'.key} ]_vars

\* after set(a), set(b), get(a): set(c) has dropped b and kept a
C3_Witness ==
    /\ max_size = 2
    /\ last_call.op = "set" /\ last_call.key = KeyC /\ ~last_call.had
    /\ last_call.removed = {KeyB}
    /\ KeySeq(cache) = <<KeyA, KeyC>>
    /\ recency = <<KeyA, KeyC>>

\* C4: a set of a key already present replaces its value and expiry, moves
\* it to the most-recently-used end and removes no other entry, full or not.
C4_ResetPosition ==
    [][ (last_call'.op = "set" /\ last_call'.had)
           => /\ last_call'.removed = {}
              /\ cache' = Append(Remove(cache, last_call'.key),
                                 [key    |-> last_call'.key,
                                  value  |-> last_call'.value,
                                  expiry |-> ExpiresAt(last_call'.ttl)]) ]_vars

\* a full store where the oldest key was set again with a new value
C4_Witness ==
    /\ max_size = 2 /\ Len(cache) = 2
    /\ last_call.op = "set" /\ last_call.had /\ last_call.key = KeyA
    /\ last_call.value = 2
    /\ KeySeq(cache) = <<KeyB, KeyA>>
    /\ cache[2].value = 2

\* =============================================== claims on the requests
\* the ProxyResponse values the store holds
Stored ==
    IF backend = "memory"
    THEN {heap[cache[n].value] : n \in 1..Len(cache)}
    ELSE {rstore[k].data : k \in {k \in CacheKeys : rstore[k] # NoEntry}}

\* request sl performs its store read in this step, and the store holds an
\* unexpired entry for its key both when it arrived and now
ReadsLive(sl) ==
    /\ IF backend = "memory"
       THEN /\ cache_stats'.total_requests = cache_stats.total_requests + 1
            /\ sl = FreeSlot
       ELSE /\ req[sl].pc = "getting" /\ req'[sl].pc # "getting"
            /\ req[sl].arrived_live
    /\ LiveEntry(req'[sl].key)

\* C5: a request that missed, fetched a cacheable response and whose store
\* write raised still ends in ServedFromOrigin, handing back the fetched
\* response with from_cache false; it never ends in Failed.
C5_WriteFailureIsolated ==
    \A sl \in Slots :
        (req[sl].raised = "set" /\ req[sl].pc \notin InFlight)
            => /\ req[sl].pc = "ServedFromOrigin"
               /\ req[sl].ret.status_code # 0
               /\ ~req[sl].ret.from_cache

\* C6: a request whose store read raised ends in Failed; it is not counted
\* as a miss (nor as a hit), misses is left as it was, and the fetcher is
\* never invoked for it.
C6_ReadFailureSurfaced ==
    [][ \A sl \in Slots :
           (req'[sl].raised = "get" /\ req[sl].pc = "getting")
               => /\ req'[sl].pc = "Failed"
                  /\ req'[sl].counted = "none"
                  /\ req'[sl].fetches = 0
                  /\ cache_stats'.misses = cache_stats.misses
                  /\ cache_stats'.hits = cache_stats.hits ]_vars

C6_Witness ==
    \E sl \in Slots :
        /\ req[sl].pc = "Failed" /\ req[sl].raised = "get"
        /\ req[sl].counted = "none" /\ req[sl].fetches = 0
        /\ cache_stats.total_requests > cache_stats.hits + cache_stats.misses

\* C7: every entry the store holds has from_cache false, and no value handed
\* back by a request is the object the store holds.
C7_StoredNeverFromCache ==
    /\ \A r \in Stored : ~r.from_cache
    /\ \A sl \in Slots : ~req[sl].ret.aliased

\* C8 as stated: every request that has ended was counted once in
\* total_requests and once in exactly one of hits and misses, so that
\* total_requests = hits + misses whenever no request is in flight.
C8_CountedExactlyOnce ==
    /\ \A sl \in Slots :
          req[sl].pc \in Terminal => req[sl].counted \in {"hit", "miss"}
    /\ (\A sl \in Slots : req[sl].pc \notin InFlight)
          => cache_stats.total_requests
                 = cache_stats.hits + cache_stats.misses

\* the requests that are between their entry and the result of the store read
Reading == {sl \in Slots : req[sl].pc = "getting"}

\* C8: every request is counted once in total_requests, on entry; a request
\* that has ended was counted once in exactly one of hits and misses unless
\* its store read raised, in which case it was counted in neither.  Counters
\* never decrease, each moves by at most one per step, and total_requests =
\* hits + misses + (requests whose store read raised) whenever no request is
\* between its entry and the store read.
C8_CountedOnceUnlessReadFailed ==
    [][ /\ \A sl \in Slots :
              req'[sl].pc \in Terminal =>
                  /\ (req'[sl].raised = "get") <=> (req'[sl].counted = "none")
                  /\ req'[sl].counted \in {"none", "hit", "miss"}
        /\ cache_stats'.total_requests - cache_stats.total_requests \in {0, 1}
        /\ cache_stats'.hits - cache_stats.hits \in {0, 1}
        /\ cache_stats'.misses - cache_stats.misses \in {0, 1}
        /\ ~(cache_stats'.hits > cache_stats.hits
               /\ cache_stats'.misses > cache_stats.misses)
        /\ cache_stats'.total_requests
              = cache_stats'.hits + cache_stats'.misses + read_failures'
                + Cardinality({sl \in Slots : req'[sl].pc = "getting"}) ]_vars

C8_Witness ==
    /\ \A sl \in Slots : req[sl].pc \in Terminal
    /\ \E sl \in Slots : req[sl].raised = "get"
    /\ \E sl \in Slots : req[sl].counted = "miss"
    /\ read_failures = 1
    /\ cache_stats.total_requests = 2
    /\ cache_stats.hits + cache_stats.misses = 1

\* C9 as stated: a request that arrives while the store holds an unexpired
\* entry for its key, and reads the store while it still does, ends in
\* ServedFromCache with from_cache true and cache_key = its key, and the
\* fetcher is not invoked for it.
C9_LaterRequestHits ==
    [][ \A sl \in Slots :
           ReadsLive(sl)
               => /\ req'[sl].pc = "ServedFromCache"
                  /\ req'[sl].ret.from_cache
                  /\ req'[sl].ret.cache_key = req'[sl].key
                  /\ req'[sl].fetches = 0
                  /\ cache_stats'.misses = cache_stats.misses ]_vars

\* C9: a request that arrives while the store holds an unexpired entry for
\* its key, and whose store read does not raise and happens while the entry
\* is still there, ends in ServedFromCache with from_cache true and
\* cache_key = its key; the fetcher is not invoked for it and misses is left
\* as it was.
C9_LaterRequestHitsIfReadSucceeds ==
    [][ \A sl \in Slots :
           (ReadsLive(sl) /\ req'[sl].raised # "get")
               => /\ req'[sl].pc = "ServedFromCache"
                  /\ req'[sl].ret.from_cache
                  /\ req'[sl].ret.cache_key = req'[sl].key
                  /\ req'[sl].fetches = 0
                  /\ cache_stats'.misses = cache_stats.misses ]_vars

\* two identical sequential requests from an empty store: one fetch in all
C9_Witness ==
    /\ cache_stats = [hits |-> 1, misses |-> 1, total_requests |-> 2]
    /\ req[1].pc = "ServedFromCache"
    /\ req[1].ret.from_cache /\ req[1].ret.cache_key = KeyA
    /\ req[1].fetches = 0
    /\ req[2].pc = "idle"
    /\ LiveEntry(KeyA) /\ ~LiveEntry(KeyB)

\* the cacheability predicate as the claim words it
Cacheable(r) ==
    /\ r.status_code \in {200, 301, 302}
    /\ \A i \in 1..Len(r.cache_control) :
          Lower(r.cache_control[i]) \notin {"no-store", "no-cache"}

\* request sl gets its origin response in this step
FetchReturns(sl) ==
    /\ req[sl].pc = "fetching"
    /\ req'[sl].pc # "fetching"
    /\ req'[sl].raised # "fetch"

\* the response request sl got from the origin in this step
FetchedBy(sl) ==
    IF req'[sl].pc = "setting" THEN heap'[req'[sl].obj] ELSE req'[sl].ret

\* statuses and Cache-Control values the policy is evaluated on
Statuses == {200, 301, 302, 404, 500}
HeaderValues == {r.cache_control : r \in OriginResponses}

\* C10: a fetched response is passed to the store's set exactly when its
\* status is 200, 301 or 302 and its Cache-Control holds neither no-store nor
\* no-cache (is_cacheable_response decides exactly that); every entry in
\* the store satisfies that predicate; and a request whose origin response
\* does not satisfy it leaves the store as it was.
C10_StoresIffCacheable ==
    [][ /\ \A r \in Stored : Cacheable(r)
        /\ \A sl \in Slots :
              FetchReturns(sl) =>
                  /\ \A status \in Statuses, cc \in HeaderValues :
                        is_cacheable_response(status, cc)
                            <=> Cacheable([status_code |-> status,
                                           cache_control |-> cc])
                  /\ (req'[sl].sets = 1) <=> Cacheable(FetchedBy(sl))
                  /\ (backend = "memory" /\ Cacheable(FetchedBy(sl)))
                        => /\ Contains(cache', req'[sl].key)
                           /\ heap'[EntryOf(cache', req'[sl].key).value]
                                    .status_code = FetchedBy(sl).status_code
                           /\ heap'[EntryOf(cache', req'[sl].key).value]
                                    .cache_control
                                 = FetchedBy(sl).cache_control
                  /\ ~Cacheable(FetchedBy(sl))
                        => cache' = cache /\ rstore' = rstore ]_vars

C10_Witness ==
    /\ \E sl \in Slots :
          /\ req[sl].pc = "ServedFromOrigin" /\ req[sl].sets = 0
          /\ req[sl].ret.status_code = 200
          /\ req[sl].ret.cache_control = <<"Public", "No-Cache">>
    /\ \E sl \in Slots :
          /\ req[sl].pc = "ServedFromOrigin" /\ req[sl].sets = 1
          /\ req[sl].ret.status_code = 301
    /\ Cardinality(Stored) = 1

\* the ttl the store's set is to be given for a request with this override
OverrideOrDefault(ttl) == IF ttl = None THEN DEFAULT_TTL ELSE ttl

\* C11: when a response is stored, the ttl given to the store's set is the
\* per-call override whenever one is supplied, 0 included, and the configured
\* default only when none is supplied: the entry written expires at
\* now + that ttl.
C11_OverrideIsTtl ==
    [][ \A sl \in Slots :
           /\ (backend = "memory" /\ req[sl].pc = "fetching"
                                  /\ req'[sl].sets = 1)
                 => EntryOf(cache', req[sl].key).expiry
                        = now + OverrideOrDefault(req[sl].ttl)
           /\ (backend = "redis" /\ req[sl].pc = "setting"
                                 /\ req'[sl].pc = "ServedFromOrigin")
                 => rstore'[req[sl].key].expire_at
                        = now + OverrideOrDefault(req[sl].ttl) ]_vars

\* request sl reads the store in this step and the read does not raise
Reads(sl) ==
    IF backend = "memory"
    THEN /\ cache_stats'.total_requests = cache_stats.total_requests + 1
         /\ sl = FreeSlot
    ELSE /\ req[sl].pc = "getting" /\ req'[sl].pc # "getting"
         /\ req'[sl].raised # "get"

\* request sl's call of the store's set completes in this step
Writes(sl) ==
    IF backend = "memory"
    THEN req[sl].pc = "fetching" /\ req'[sl].sets = 1
    ELSE req[sl].pc = "setting" /\ req'[sl].pc = "ServedFromOrigin"

\* the ProxyResponse the store holds under key after this step
StoredUnder(key) ==
    IF backend = "memory" THEN heap'[EntryOf(cache', key).value]
    ELSE rstore'[key].data

\* C12: there is no per-key coalescing.  A request that reads the store
\* while another request for the same key is past its read and has not
\* written yet, and the store has no live entry for the key, is a miss of
\* its own: misses is incremented and its own fetch starts.  Each request
\* that fetched a cacheable response calls set, and a set overwrites what an
\* earlier set left under the key, so the entry left is the last writer's.
C12_NoCoalescing ==
    [][ \A sl \in Slots :
           /\ (/\ Reads(sl)
               /\ ~LiveEntry(req'[sl].key)
               /\ \E o \in Slots \ {sl} : /\ req[o].pc \in {"fetching", "setting"}
                                          /\ req[o].key = req'[sl].key)
                 => /\ req'[sl].pc = "fetching"
                    /\ req'[sl].counted = "miss"
                    /\ req'[sl].fetches = 1
                    /\ cache_stats'.misses = cache_stats.misses + 1
           /\ FetchReturns(sl) /\ Cacheable(FetchedBy(sl))
                 => req'[sl].sets = 1
           /\ Writes(sl)
                 => /\ StoredUnder(req[sl].key).status_code
                          = FetchedBy(sl).status_code
                    /\ StoredUnder(req[sl].key).cache_control
                          = FetchedBy(sl).cache_control
                    /\ backend = "memory"
                          => EntryOf(cache', req[sl].key).expiry
                                 = now + CacheTtl(req[sl].ttl)
                    /\ backend = "redis"
                          => rstore'[req[sl].key].expire_at
                                 = now + CacheTtl(req[sl].ttl) ]_vars

\* two requests for one key, both misses, both fetched and both set; the
\* first to arrive wrote last and its response is the one in the store
C12_Witness ==
    /\ backend = "memory"
    /\ cache_stats = [hits |-> 0, misses |-> 2, total_requests |-> 2]
    /\ \A sl \in Slots : /\ req[sl].pc = "ServedFromOrigin"
                         /\ req[sl].key = KeyA
                         /\ req[sl].fetches = 1 /\ req[sl].sets = 1
    /\ req[1].ret.status_code = 200
    /\ req[2].ret.status_code = 301
    /\ Len(cache) = 1
    /\ heap[cache[1].value].status_code = 200

\* coroutine o executes the last statement of its store operation
Completes(o) == MidOp(req[o]) /\ ~MidOp(req'[o])

\* the clock value the operation of o compared or added to
ReadAt(o) == IF req[o].t # None THEN req[o].t ELSE now

\* What the operation of o leaves behind is what the whole operation does,
\* in one piece, to the mapping it found when it began.
AtomicResult(o) ==
    LET task == req[o]
    IN  CASE task.pc \in {"g_in", "g_read", "g_del", "g_move"} ->
               LET r == MemGet(task.start, task.key, ReadAt(o))
               IN  /\ cache' = r.cache
                   /\ IF r.ret = None /\ task.kind = "proxy"
                      THEN req'[o].pc = "fetching"
                      ELSE req'[o].pc = "done" /\ req'[o].ret = r.ret
          [] task.pc \in {"s_ttl", "s_del", "s_evict", "s_ins"} ->
               cache' = MemSet(task.start, task.key, o, task.ttl, task.t,
                               max_size)
          [] task.pc \in {"d_in", "d_del"} ->
               cache' = MemDelete(task.start, task.key)
          [] task.pc \in {"e_in", "e_read", "e_del"} ->
               LET r == MemExists(task.start, task.key, ReadAt(o))
               IN  /\ cache' = r.cache
                   /\ req'[o].ret = IF r.ret THEN 1 ELSE 0

\* C13: with coroutines of process_proxy_request and of the administrative
\* handlers interleaved on one event loop, each operation of the memory
\* store takes effect in one piece: while a coroutine is between the
\* statements of an operation no other coroutine moves and the mapping is
\* changed by nobody else, and what the operation leaves is the result of
\* the whole operation applied to the mapping it began with.  The mapping
\* never holds more than max_size entries nor a key twice.
C13_OperationsAtomic ==
    [][ /\ Len(cache') <= max_size
        /\ Cardinality(KeysOf(cache')) = Len(cache')
        /\ \A o \in Slots :
              MidOp(req[o]) =>
                  /\ \A x \in Slots \ {o} : req'[x] = req[x]
                  /\ req'[o] = req[o] => cache' = cache
                  /\ Completes(o) => AtomicResult(o) ]_vars

\* two requests for one key were suspended at the fetch together; the first
\* has stored its response, and the second, inside set with the old entry
\* removed and its own not yet inserted, still holds the event loop
C13_Witness ==
    /\ running = 2
    /\ req[2].pc = "s_ins"
    /\ req[2].start = <<[key |-> KeyA, value |-> 1, expiry |-> DEFAULT_TTL]>>
    /\ cache = <<>>
    /\ req[1].pc = "done"
    /\ cache_stats.misses = 2

\* ------------------------------------------------------------------- C14
\* two dicts with the same items, in whatever order they were inserted
SameDict(a, b) ==
    /\ a.given = b.given
    /\ {a.items[i] : i \in 1..Len(a.items)} = {b.items[i] : i \in 1..Len(b.items)}

SameKeyFields(r1, r2) ==
    /\ r1.url = r2.url
    /\ r1.method = r2.method
    /\ SameDict(r1.params, r2.params)
    /\ SameDict(r1.body, r2.body)

\* C14: key derivation is a pure function of (url, method, params, body):
\* two requests equal in these four derive the same key whatever their
\* headers and whatever the order of the items in params or in a mapping
\* body, and deriving a key changes neither the store nor the counters.
C14_KeyIsPureFunction ==
    [][ (\E i \in Slots : req'[i].key # req[i].key) =>
            /\ cache' = cache
            /\ rstore' = rstore
            /\ cache_stats' = cache_stats
            /\ \A i, j \in Slots :
                  /\ req'[i].key # NoKey
                  /\ req'[j].key # NoKey
                  /\ SameKeyFields(req'[i].request, req'[j].request)
                  => req'[i].key = req'[j].key ]_vars

\* two requests with different headers, params and body inserted in
\* opposite orders, both derived, with one key
C14_Witness ==
    /\ req[1].request.headers # req[2].request.headers
    /\ req[1].request.params = Dict(<<ItemP, ItemQ>>)
    /\ req[2].request.params = Dict(<<ItemQ, ItemP>>)
    /\ req[1].request.body = Dict(<<ItemQ, ItemP>>)
    /\ req[2].request.body = Dict(<<ItemP, ItemQ>>)
    /\ req[1].key # NoKey
    /\ req[1].key = req[2].key

\* ------------------------------------------------------------------- C15
\* C15: the reported hit ratio is 0 when there have been no requests, and
\* when every request was classified a hit or a miss it equals
\* hits / total_requests (the report counts hundredths, so the reported
\* number times total_requests is 100 times hits).
C15_HitRatioIsHitsOverTotal ==
    /\ cache_stats.total_requests = 0 => get_stats.hit_rate = 0
    /\ /\ cache_stats.total_requests > 0
       /\ cache_stats.total_requests = cache_stats.hits + cache_stats.misses
       => get_stats.hit_rate * cache_stats.total_requests
              = 100 * cache_stats.hits

\* ------------------------------------------------------------------- C16
\* C16: when the fetcher fails during a miss the request ends Failed, the
\* fetcher was invoked exactly once for it, the store's set was not called,
\* and the store holds what it held before the fetch failed.
C16_FetchFailurePropagates ==
    [][ \A sl \in Slots :
            req'[sl].raised = "fetch" =>
                /\ req'[sl].pc = "Failed"
                /\ req'[sl].fetches = 1
                /\ req'[sl].sets = 0
                /\ req[sl].raised # "fetch" =>
                      /\ req[sl].pc = "fetching"
                      /\ cache' = cache
                      /\ rstore' = rstore ]_vars

\* a request failed by its fetch while the store holds an entry
C16_Witness ==
    \E sl \in Slots :
        /\ req[sl].raised = "fetch"
        /\ req[sl].pc = "Failed"
        /\ req[sl].counted = "miss"
        /\ IF backend = "memory" THEN Len(cache) > 0
           ELSE \E key \in ProxyKeys : RedisLive(rstore, key, now) # {}

\* ------------------------------------------------------------------- C17
\* C17: exists(k) is consistent with get(k): it returns true exactly when
\* get(k) at the same instant would return a value, it removes an expired
\* entry as get does, and on a fresh entry it leaves the mapping in the
\* order get would leave it in (k most recently used).
C17_ExistsTouchesLikeGet ==
    [][ last_call'.op = "exists" =>
            \E g \in {MemGet(cache, last_call'.key, now)} :
                /\ (last_call'.ret = 1) <=> (g.ret # None)
                /\ KeysOf(cache') = KeysOf(g.cache)
                /\ KeySeq(cache') = KeySeq(g.cache) ]_vars

\* ------------------------------------------------------------------- C18
\* C18: with the memory backend, DELETE /cache/clear, dispatched through
\* the routes in their declared order, leaves the store with no entries
\* whatever it held; DELETE /cache/<key> removes the entry under that key
\* and no other.
C18_ClearEmptiesStore ==
    [][ last_call'.op = "DELETE" =>
            IF last_call'.key = Clear
            THEN cache' = <<>>
            ELSE cache' = SelectSeq(cache,
                                    LAMBDA e : e.key # last_call'.key) ]_vars

\* ------------------------------------------------------------------- C19
\* the entries of a mapping, whatever their order
Entries(c) == {c[i] : i \in 1..Len(c)}

\* request sl is served from the store in this step
ServedHit(sl) == Reads(sl) /\ req'[sl].counted = "hit"

\* C19: a hit never extends an entry's lifetime.  With the memory backend a
\* get or an exists of any key leaves every entry it keeps with the expiry
\* it had; an entry's expiry changes only when a request's set writes the
\* key, and is then the time of the set plus the ttl given to set; and a
\* request is served from the store only at a time not later than the
\* expiry of the entry it is served from.
C19_HitsNeverExtendLifetime ==
    [][ backend = "memory" =>
          /\ \A key \in ProxyKeys :
                /\ Entries(MemGet(cache, key, now).cache) \subseteq Entries(cache)
                /\ Entries(MemExists(cache, key, now).cache)
                       \subseteq Entries(cache)
                /\ (/\ Contains(cache, key) /\ Contains(cache', key)
                    /\ EntryOf(cache', key).expiry # EntryOf(cache, key).expiry)
                      => \E sl \in Slots : Writes(sl) /\ req[sl].key = key
          /\ \A sl \in Slots :
                /\ Writes(sl) => EntryOf(cache', req[sl].key).expiry
                                     = now + CacheTtl(req[sl].ttl)
                /\ ServedHit(sl)
                      => /\ Contains(cache, req'[sl].key)
                         /\ now <= EntryOf(cache, req'[sl].key).expiry
                         /\ EntryOf(cache', req'[sl].key).expiry
                                = EntryOf(cache, req'[sl].key).expiry ]_vars

\* an entry written at time 0 with ttl 1 served a hit and, at time 2, is
\* still in the mapping with the expiry it was written with
C19_Witness ==
    /\ backend = "memory"
    /\ now = 2
    /\ cache_stats.hits = 1
    /\ \E sl \in Slots : req[sl].pc = "ServedFromCache" /\ req[sl].key = KeyA
    /\ Contains(cache, KeyA)
    /\ EntryOf(cache, KeyA).expiry = 1

\* ------------------------------------------------------------------- C20
\* C20: a set of a key the store does not hold removes at most one entry,
\* and only when the store already holds max_size entries; the entry removed
\* is the one at the least-recently-used end, expired or not, and every
\* other entry, expired ones included, stays as it was.
C20_EvictsOnlyLruEnd ==
    [][ (last_call'.op = "set" /\ ~last_call'.had) =>
            /\ Cardinality(last_call'.removed) <= 1
            /\ (last_call'.removed # {}) <=> (Len(cache) >= max_size)
            /\ Len(cache) >= max_size =>
                  /\ last_call'.removed = {Head(cache).key}
                  /\ Entries(cache) \ Entries(cache') = {Head(cache)}
            /\ \A i \in 1..Len(cache) :
                  (cache[i].expiry < now /\ (i > 1 \/ Len(cache) < max_size))
                     => cache[i] \in Entries(cache')
            /\ Len(cache') <= max_size ]_vars

\* at time 1 a set of a third key into a store of two has dropped the key
\* at the least-recently-used end and kept an entry that expired at time 0
C20_Witness ==
    /\ max_size = 2
    /\ now = 1
    /\ last_call.op = "set" /\ last_call.key = KeyC /\ ~last_call.had
    /\ last_call.removed = {KeyA}
    /\ KeySeq(cache) = <<KeyB, KeyC>>
    /\ cache[1].expiry = 0

====
